---- MODULE Spec2Model ----
(***************************************************************************)
(* Funnel analysis pipeline of susansheng/Data_Analysis.                   *)
(*                                                                         *)
(* Four entry points run the same pipeline on a loaded table:              *)
(*   funnel_analyzer.py        FunnelAnalyzer.run_analysis (step methods)  *)
(*   generate_offline_report.py generate_offline_html_report (one call)    *)
(*   generate_html_report.py    generate_html_report (one call)            *)
(*   api/index.py               analyze_data_from_bytes (one call)         *)
(*                                                                         *)
(* Around the pipeline: the window of analyzer_gui.py with its worker       *)
(* threads, the upload handlers of app.py and api/index.py, and the        *)
(* connection context manager of api/db.py.  prog selects what runs.       *)
(*                                                                         *)
(* Numbers.  Counts are naturals.  A percentage rounded to two decimals is *)
(* kept as an integer number of hundredths of a percent (36.36 % = 3636).  *)
(* A pandas Series element is a float that can also be inf or NaN; it is   *)
(* the record [k |-> "num", v |-> hundredths], [k |-> "inf", v |-> 0] or   *)
(* [k |-> "nan", v |-> 0], compared with IEEE-754 semantics.               *)
(***************************************************************************)
EXTENDS Integers, Sequences, FiniteSets, TLC

\* ---------------------------------------------------------------- bounds
\* the largest count in a cell of a generated table
MaxCount == 1

\* head(50) / top_n=50
TopN == 50

\* groupby sorts its keys: event names in their sort order
EventOrder == <<"A", "B", "C", "D", "E", "F", "G", "H", "I", "J", "K", "L", "M">>

\* the events of the generated tables of up to two rows
Events == {EventOrder[i] : i \in 1..2}

Counts == 0..MaxCount
SubCounts == {0, 1}
Thresholds == 0..(MaxCount + 1)
TableLengths == {0, 1, 2}
TopNs == {1, 2, TopN}

Programs == {"funnel_analyzer", "offline", "html", "api"}

\* the programs around the pipeline: the desktop window, the upload handlers of the
\* two web applications, the database connection of the second one
Services == {"gui", "app_upload", "api_upload", "db"}

Row(ev, e, c, s, o) == [event |-> ev, exposure |-> e, click |-> c, submit |-> s, order |-> o]

Rows == [event : Events, exposure : Counts, click : Counts, submit : SubCounts, order : SubCounts]

\* every table of up to two rows
Tables == UNION {[1..k -> Rows] : k \in TableLengths}

\* tables with one row for each of three events, out of key order
RankingTables ==
    {<<Row("B", p[1][1], p[1][2], 1, 0), Row("C", p[2][1], p[2][2], 0, 0), Row("A", p[3][1], p[3][2], 1, 1)>> :
        p \in [1..3 -> Counts \X Counts]}

\* the worked examples of the documentation, as loaded tables
ScenarioThreshold == [data |-> <<Row("A", 100, 20, 0, 0), Row("A", 50, 5, 0, 0), Row("B", 10, 20, 0, 0)>>, t |-> 10]
ScenarioEventA == [data |-> <<Row("A", 120, 60, 4, 3), Row("B", 50, 60, 1, 1), Row("A", 80, 40, 6, 2)>>, t |-> 10]
ScenarioLoss == [data |-> <<Row("A", 100, 80, 40, 8)>>, t |-> 10]
ScenarioAnomaly == [data : {<<Row("A", 50, 60, 1, 1), Row("B", 100, 50, 5, 5)>>}, t : {0, 10, 70}]

\* thirteen modules: six with a large exposure and a click rate between 1.0 % and 1.5 %,
\* seven with a small exposure and a click rate between 50 % and 56 %
ScenarioLowEfficiency ==
    [data |-> [i \in 1..13 |->
                IF i <= 6 THEN Row(EventOrder[i], 1000, 9 + i, 2, 1)
                ELSE Row(EventOrder[i], 100, 43 + i, 5, 2)],
     t |-> 10]

ScenarioInputs ==
    {ScenarioThreshold, ScenarioEventA, ScenarioLoss, ScenarioLowEfficiency} \cup ScenarioAnomaly

Inputs == [data : Tables \cup RankingTables, t : Thresholds] \cup ScenarioInputs

\* the further invocations of run_analysis a caller makes on one FunnelAnalyzer
MaxReruns == 1

\* the end of the file name: three accepted suffixes, an upper-case one, another one
Exts == {"csv", "xlsx", "xls", "CSV", "txt"}

\* the five columns the pipeline reads, and the two optional dimensions
RequiredColumns == {"exposure", "click", "submit", "order", "event"}
OptionalColumns == {"platform", "date"}
AllColumns == RequiredColumns \cup OptionalColumns

\* the column sets of a file: complete, one column missing, both dimensions missing
Schemas == {AllColumns, RequiredColumns} \cup {AllColumns \ {c} : c \in AllColumns}

\* files of any suffix and column set; threshold 70 leaves no row of the first table
FileInputs ==
    [data : {ScenarioEventA.data, ScenarioLoss.data}, t : {10, 70}, ext : Exts, columns : Schemas]

\* the files a caller analyses one after the other with one FunnelAnalyzer
RerunInputs ==
    [data : {ScenarioEventA.data, ScenarioLoss.data}, t : {10}, ext : {"csv"},
     columns : {AllColumns, RequiredColumns}]

\* the optional cells of the row with index label l: days alternate, so do platforms
DayOf(l) == (l % 2) + 1
PlatformOf(l) == IF l % 2 = 0 THEN "android" ELSE "ios"

\* read_csv leaves a date column as text (dtype object), read_excel reads date cells as
\* datetime64
ReadDtype(e, cols) ==
    IF "date" \notin cols THEN "absent"
    ELSE IF e = "csv" THEN "object" ELSE "datetime64"

\* pd.to_datetime(column): text is parsed to timestamps, timestamps stay
to_datetime(dtype) == "datetime64"

\* one cell of the date column
DateCell(dtype, l) == [dtype |-> dtype, day |-> DayOf(l)]

\* RangeIndex(0, n)
RangeIndex(n) == [i \in 1..n |-> i - 1]

\* ---------------------------------------------------------------- floats
Num(v) == [k |-> "num", v |-> v]
Inf == [k |-> "inf", v |-> 0]
NaN == [k |-> "nan", v |-> 0]

\* a > b on floats: false whenever either side is NaN
FGt(a, b) ==
    /\ a.k # "nan"
    /\ b.k # "nan"
    /\ \/ a.k = "inf" /\ b.k = "num"
       \/ a.k = "num" /\ b.k = "num" /\ a.v > b.v

\* a >= b on floats: false whenever either side is NaN
FGeq(a, b) ==
    /\ a.k # "nan"
    /\ b.k # "nan"
    /\ \/ a.k = "inf"
       \/ a.k = "num" /\ b.k = "num" /\ a.v >= b.v

\* a < b on floats
FLt(a, b) == FGt(b, a)

\* round(num / den * 100, 2) for den > 0, in hundredths, ties to even
Round2(num, den) ==
    LET q == (num * 10000) \div den
        r == (num * 10000) % den
    IN  IF 2 * r > den \/ (2 * r = den /\ q % 2 = 1) THEN q + 1 ELSE q

\* mutant: the zero guard is missing, numpy yields inf or NaN
GuardedRatio_Unguarded(num, den) ==
    IF den > 0 THEN Num(Round2(num, den))
    ELSE IF num > 0 THEN Inf ELSE NaN

\* Python scalar: round((num / den * 100) if den > 0 else 0, 2)
GuardedRatio(num, den) == IF den > 0 THEN Num(Round2(num, den)) ELSE Num(0)

\* pandas Series: (num / den * 100).round(2), no guard: x/0 is inf, 0/0 is NaN
SeriesRatio(num, den) ==
    IF den > 0 THEN Num(Round2(num, den))
    ELSE IF num > 0 THEN Inf ELSE NaN

\* 100 - x; the overall ratios are guarded, so x is a number wherever this is used
Loss(x) == IF x.k = "num" THEN Num(10000 - x.v) ELSE NaN

\* ---------------------------------------------------------------- frames
\* Series.sum()
RECURSIVE SumOf(_, _)
SumOf(rows, col) == IF rows = <<>> THEN 0 ELSE Head(rows)[col] + SumOf(Tail(rows), col)

\* the four count columns
Exposure == "exposure"
Click == "click"
Submit == "submit"
Order == "order"

\* mutant: the filter reads the table from its second row
ThresholdFilter_SkipsFirstRow(rows, t) ==
    SelectSeq(IF rows = <<>> THEN rows ELSE Tail(rows), LAMBDA r : r.click >= t)

\* mutant: a row with click equal to the threshold is dropped too
ThresholdFilter_Strict(rows, t) == SelectSeq(rows, LAMBDA r : r.click > t)

\* mutant: the first row of the table passes whatever its clicks
ThresholdFilter_HeadExempt(rows, t) ==
    IF rows = <<>> THEN rows
    ELSE <<Head(rows)>> \o SelectSeq(Tail(rows), LAMBDA r : r.click >= t)

\* df[df['点击UV(SUM)'] >= min_click_threshold]
ThresholdFilter(rows, t) == SelectSeq(rows, LAMBDA r : r.click >= t)

\* mutant: the comparison is turned round
AnomalyFilter_Flipped(rows) == SelectSeq(rows, LAMBDA r : r.click >= r.exposure)

\* mutant: the second rule is missing
AnomalyFilter_Missing(rows) == rows

\* mutant: an anomalous row is kept with its click cut down to its exposure
AnomalyFilter_Clamps(rows) ==
    [i \in 1..Len(rows) |->
        IF rows[i].click <= rows[i].exposure THEN rows[i]
        ELSE [rows[i] EXCEPT !.click = rows[i].exposure]]

\* mutant: a row with as many clicks as exposures is dropped too
AnomalyFilter_DropsEqual(rows) == SelectSeq(rows, LAMBDA r : r.click < r.exposure)

\* df[df['点击UV(SUM)'] <= df['页面UV(SUM)']]
AnomalyFilter(rows) == SelectSeq(rows, LAMBDA r : r.click <= r.exposure)

\* a frame as rows that carry their index label: a boolean mask keeps a row together
\* with its label
Labelled(rows, labels) == [i \in 1..Len(rows) |-> [label |-> labels[i]] @@ rows[i]]

\* the pipeline columns of the rows of a labelled frame
Values(lrows) ==
    [i \in 1..Len(lrows) |->
        Row(lrows[i].event, lrows[i].exposure, lrows[i].click, lrows[i].submit, lrows[i].order)]

\* df.index
Labels(lrows) == [i \in 1..Len(lrows) |-> lrows[i].label]

\* mutant: order_cvr is taken over the submit total
calculate_metrics_OrderOverSubmit(group_df) ==
    LET total_exposure == SumOf(group_df, Exposure)
        total_click == SumOf(group_df, Click)
        total_convert == SumOf(group_df, Submit)
        total_order == SumOf(group_df, Order)
    IN  [exposure |-> total_exposure,
         click |-> total_click,
         convert |-> total_convert,
         order |-> total_order,
         ctr |-> GuardedRatio(total_click, total_exposure),
         click_cvr |-> GuardedRatio(total_convert, total_click),
         order_cvr |-> GuardedRatio(total_order, total_convert)]

\* FunnelAnalyzer.calculate_metrics
calculate_metrics(group_df) ==
    LET total_exposure == SumOf(group_df, Exposure)
        total_click == SumOf(group_df, Click)
        total_convert == SumOf(group_df, Submit)
        total_order == SumOf(group_df, Order)
    IN  [exposure |-> total_exposure,
         click |-> total_click,
         convert |-> total_convert,
         order |-> total_order,
         ctr |-> GuardedRatio(total_click, total_exposure),
         click_cvr |-> GuardedRatio(total_convert, total_click),
         order_cvr |-> GuardedRatio(total_order, total_click)]

\* the overall block of the three report functions: the same sums and guards
overall_block(rows) ==
    LET total_exposure == SumOf(rows, Exposure)
        total_click == SumOf(rows, Click)
        total_convert == SumOf(rows, Submit)
        total_order == SumOf(rows, Order)
    IN  [exposure |-> total_exposure,
         click |-> total_click,
         convert |-> total_convert,
         order |-> total_order,
         ctr |-> GuardedRatio(total_click, total_exposure),
         click_cvr |-> GuardedRatio(total_convert, total_click),
         order_cvr |-> GuardedRatio(total_order, total_click)]

\* the rows of one event, in table order
Partition(rows, ev) == SelectSeq(rows, LAMBDA r : r.event = ev)

\* the group keys present in the table, in groupby (sorted) order
GroupKeys(rows) ==
    SelectSeq(EventOrder, LAMBDA ev : \E i \in 1..Len(rows) : rows[i].event = ev)

\* groupby('点击事件名称') sums, reset_index (idx = position in key order), and the
\* three Series ratios, which carry no zero guard
GroupedEvents(rows) ==
    LET keys == GroupKeys(rows)
    IN  [i \in 1..Len(keys) |->
            LET g == Partition(rows, keys[i])
                e == SumOf(g, Exposure)
                c == SumOf(g, Click)
                s == SumOf(g, Submit)
                o == SumOf(g, Order)
            IN  [idx |-> i - 1,
                 name |-> keys[i],
                 exposure |-> e,
                 click |-> c,
                 convert |-> s,
                 order |-> o,
                 ctr |-> SeriesRatio(c, e),
                 click_cvr |-> SeriesRatio(s, c),
                 order_cvr |-> SeriesRatio(o, c)]]

\* the value of an optional column in the row with index label l
CellOf(col, l) == IF col = "date" THEN DayOf(l) ELSE PlatformOf(l)

\* the keys of an optional column in groupby (sorted) order
KeyOrder(col) == IF col = "date" THEN <<1, 2>> ELSE <<"android", "ios">>

\* the rows of one group of groupby(col), in table order
RECURSIVE GroupRows(_, _, _, _)
GroupRows(rows, labels, col, key) ==
    IF rows = <<>> THEN <<>>
    ELSE (IF CellOf(col, Head(labels)) = key THEN <<Head(rows)>> ELSE <<>>)
            \o GroupRows(Tail(rows), Tail(labels), col, key)

\* the keys of groupby(col) present in the table
DimensionKeys(labels, col) ==
    SelectSeq(KeyOrder(col), LAMBDA k : \E i \in 1..Len(labels) : CellOf(col, labels[i]) = k)

\* self.df.groupby(col).apply(lambda x: pd.Series(self.calculate_metrics(x))): one entry
\* for each key, with the guarded metrics of its rows
DimensionAnalysis(rows, labels, col) ==
    LET keys == DimensionKeys(labels, col)
    IN  [i \in 1..Len(keys) |->
            [key |-> keys[i]] @@ calculate_metrics(GroupRows(rows, labels, col, keys[i]))]

\* df.groupby('日期').apply(lambda x: pd.Series({'ctr': round(x[..].sum() / x[..].sum() * 100, 2),
\* ...})): numpy scalars divide without a guard
DateTrend(rows, labels) ==
    LET keys == DimensionKeys(labels, "date")
    IN  [i \in 1..Len(keys) |->
            LET g == GroupRows(rows, labels, "date", keys[i])
                e == SumOf(g, Exposure)
                c == SumOf(g, Click)
                s == SumOf(g, Submit)
                o == SumOf(g, Order)
            IN  [key |-> keys[i],
                 ctr |-> SeriesRatio(c, e),
                 click_cvr |-> SeriesRatio(s, c),
                 order_cvr |-> SeriesRatio(o, c)]]

\* DataFrame.tail(n)
TailN(s, n) == SubSeq(s, IF Len(s) > n THEN Len(s) - n + 1 ELSE 1, Len(s))

\* the orders a descending sort can leave the entries S of groups in: an entry with a
\* number or inf that none of the others exceeds comes first, any one of them when
\* several are equal; when only NaN entries are left they follow in the order they had
RECURSIVE Arrangements(_, _)
Arrangements(groups, S) ==
    LET numbers == {i \in S : groups[i].ctr.k # "nan"}
        firsts == IF numbers # {}
                    THEN {i \in numbers : \A j \in numbers : ~FGt(groups[j].ctr, groups[i].ctr)}
                    ELSE {i \in S : \A j \in S : i <= j}
    IN  IF S = {} THEN {<<>>}
        ELSE UNION {{<<groups[i]>> \o s : s \in Arrangements(groups, S \ {i})} : i \in firsts}

\* sort_values('点击率(CTR)', ascending=False), with the defaults kind='quicksort' and
\* na_position='last': the entries with a number or inf come first, none below a later
\* one, and quicksort promises no order among equal keys; the NaN entries follow in
\* the order they had
SortValues(groups) == Arrangements(groups, 1..Len(groups))

\* mutant: one entry short
HeadN_OneShort(s, n) == SubSeq(s, 1, IF n - 1 < Len(s) THEN n - 1 ELSE Len(s))

\* DataFrame.head(n)
HeadN(s, n) == SubSeq(s, 1, IF n < Len(s) THEN n ELSE Len(s))

\* top_modules.insert(0, '排名', range(1, len(top_modules) + 1))
InsertRank(s) == [i \in 1..Len(s) |-> [rank |-> i] @@ s[i]]

\* the Markdown table: for _, row in self.top_modules.iterrows(): row['排名'] ...
MarkdownRows(top) ==
    [i \in 1..Len(top) |-> [rank |-> top[i].rank, name |-> top[i].name, ctr |-> top[i].ctr]]

\* the HTML tables: for idx, row in top_modules.iterrows(): rank = idx + 1
HtmlRows(top) ==
    [i \in 1..Len(top) |-> [rank |-> top[i].idx + 1, name |-> top[i].name, ctr |-> top[i].ctr]]

\* 曝光到点击, 点击到转化, 转化到下单
StageNames == <<"exposure_to_click", "click_to_conversion", "conversion_to_order">>

\* mutant: a later candidate also replaces an equal one
MaxWithKey_LastWins(click_loss, convert_loss, order_loss) ==
    LET a == [stage |-> StageNames[1], loss |-> click_loss]
        b == [stage |-> StageNames[2], loss |-> convert_loss]
        c == [stage |-> StageNames[3], loss |-> order_loss]
        m1 == IF FGeq(b.loss, a.loss) THEN b ELSE a
    IN  IF FGeq(c.loss, m1.loss) THEN c ELSE m1

\* max(('曝光到点击', click_loss), ('点击到转化', convert_loss), ('转化到下单', order_loss),
\*     key=lambda x: x[1]): a later candidate replaces the current one only if greater
MaxWithKey(click_loss, convert_loss, order_loss) ==
    LET a == [stage |-> StageNames[1], loss |-> click_loss]
        b == [stage |-> StageNames[2], loss |-> convert_loss]
        c == [stage |-> StageNames[3], loss |-> order_loss]
        m1 == IF FGt(b.loss, a.loss) THEN b ELSE a
    IN  IF FGt(c.loss, m1.loss) THEN c ELSE m1

\* max(click_loss, convert_loss, order_loss)
Max3(x, y, z) ==
    LET m == IF FGt(y, x) THEN y ELSE x
    IN  IF FGt(z, m) THEN z ELSE m

\* max_loss = max(...); if max_loss == click_loss: ... elif max_loss == convert_loss: ... else: ...
IfElifStage(click_loss, convert_loss, order_loss) ==
    LET max_loss == Max3(click_loss, convert_loss, order_loss)
    IN  IF max_loss.k = "num" /\ max_loss = click_loss
            THEN [stage |-> StageNames[1], loss |-> max_loss]
        ELSE IF max_loss.k = "num" /\ max_loss = convert_loss
            THEN [stage |-> StageNames[2], loss |-> max_loss]
        ELSE [stage |-> StageNames[3], loss |-> max_loss]

\* the k-th smallest of the values of a column
KthSmallest(vals, k) ==
    CHOOSE v \in {vals[i] : i \in 1..Len(vals)} :
        /\ Cardinality({i \in 1..Len(vals) : vals[i] < v}) < k
        /\ Cardinality({i \in 1..Len(vals) : vals[i] <= v}) >= k

\* twice Series.median(): the middle value, or the mean of the two middle values
Median2(vals) ==
    LET n == Len(vals)
    IN  IF n % 2 = 1 THEN 2 * KthSmallest(vals, (n + 1) \div 2)
        ELSE KthSmallest(vals, n \div 2) + KthSmallest(vals, n \div 2 + 1)

\* a < b * 0.5 on floats
LtHalf(a, b) ==
    /\ a.k = "num"
    /\ \/ b.k = "inf"
       \/ b.k = "num" /\ 2 * a.v < b.v

\* mutant: the exposure is not looked at
LowCtr_AnyExposure(events, ctr) == SelectSeq(events, LAMBDA r : LtHalf(r.ctr, ctr))

\* event_analysis[(event_analysis['点击率(CTR)'] < ctr * 0.5) &
\*                (event_analysis['曝光人数'] > event_analysis['曝光人数'].median())]
LowCtr(events, ctr) ==
    LET exposures == [i \in 1..Len(events) |-> events[i].exposure]
    IN  SelectSeq(events, LAMBDA r : LtHalf(r.ctr, ctr) /\ 2 * r.exposure > Median2(exposures))

\* one entry of self.insights: its title and the modules its content lists
Insight(title, modules) == [title |-> title, modules |-> modules]

\* the names of the rows of a frame, in order
Names(rows) == [i \in 1..Len(rows) |-> rows[i].name]

NoMetrics == [exposure |-> 0, click |-> 0, convert |-> 0, order |-> 0,
              ctr |-> NaN, click_cvr |-> NaN, order_cvr |-> NaN]
NoStage == [stage |-> "none", loss |-> NaN]

\* an attribute that was never assigned (hasattr is False), and one holding a frame
NoFrame == [set |-> FALSE, rows |-> <<>>]
Frame(rows) == [set |-> TRUE, rows |-> rows]

\* exceptions
NoError == [type |-> "none", arg |-> "none"]
KeyError(k) == [type |-> "KeyError", arg |-> k]
\* raise ValueError("不支持的文件格式")
UnsupportedFormat == [type |-> "ValueError", arg |-> "unsupported_format"]

\* filename.rsplit('.', 1)[-1].lower()
Lower(e) == IF e = "CSV" THEN "csv" ELSE e

\* mutant: one more suffix is read
Supported_AlsoTxt(e) == e \in {"xlsx", "xls", "csv", "txt"}

\* endswith('.xlsx') or endswith('.xls') ... elif endswith('.csv')
Supported(e) == e \in {"xlsx", "xls", "csv"}

\* groupby(...).apply on a frame without rows gives a frame with the columns of the
\* input and none of the computed ones.  With the key among the columns reset_index
\* raises ValueError (cannot insert, already exists); otherwise the next line, which
\* reads event_analysis['点击人数'], raises KeyError.  The pandas release decides.
EmptyGroupErrors == {[type |-> "ValueError", arg |-> "event"], KeyError("click_total")}

\* the same empty frame in the report functions: trend_data['ctr'] raises KeyError
EmptyTrendError == KeyError("ctr")

\* mutant: the step is noted ahead of the earlier ones
Log_Prepends(s, x) == IF \E i \in 1..Len(s) : s[i] = x THEN s ELSE <<x>> \o s

\* s with x appended, once
Log(s, x) == IF \E i \in 1..Len(s) : s[i] = x THEN s ELSE Append(s, x)

\* the steps of s that were executed, in order: s is a sequence of <<flag, name>>
RECURSIVE Executed(_)
Executed(s) ==
    IF s = <<>> THEN <<>>
    ELSE (IF Head(s)[1] THEN <<Head(s)[2]>> ELSE <<>>) \o Executed(Tail(s))

\* ---------------------------------------------------------------- desktop window
\* the last second the clock of a service reaches
MaxTime == 1

\* min_click_threshold=10, the default of generate_offline_html_report and of --min-click
DefaultThreshold == 10

\* the values the user sets the spinbox (1 to 100) to
SpinboxValues == {DefaultThreshold, 20}

\* the data file the user selects
Files == {"data.xlsx"}

\* the worker threads of two clicks on the button
Threads == {1, 2}

\* datetime.now().strftime('%Y%m%d_%H%M%S'): the clock read to the second
Timestamp(now) == now

\* script_dir / f"report_offline_{timestamp}.html" and script_dir / f"report_{timestamp}.md"
html_output(timestamp) == <<"report_offline", timestamp, "html">>
md_output(timestamp) == <<"report", timestamp, "md">>
OutputPaths == {html_output(ts) : ts \in 0..MaxTime} \cup {md_output(ts) : ts \in 0..MaxTime}

\* a worker thread that was not created; the locals of a thread are file_path,
\* threshold, timestamp and generated_files, and the model notes the threshold each
\* child ran with, the exit codes and the final status line the thread has set
NoThread ==
    [pc |-> "none", file_path |-> "none", threshold |-> 0, timestamp |-> 0,
     html_min_click |-> 0, md_min_click |-> 0, returncodes |-> <<>>,
     generated_files |-> <<>>, final |-> "none"]

\* the status lines a worker ends with: done, generation failed, error occurred
FinalStatuses == {"done", "failed", "error"}

\* FunnelAnalyzerGUI.__init__: the variables of the window; folder gives for each
\* report path the thread whose child wrote the file there last, 0 for no file
FunnelAnalyzerGUI ==
    [file_path_var |-> "none",
     threshold_var |-> DefaultThreshold,
     html_var |-> TRUE,
     md_var |-> FALSE,
     status_var |-> "idle",
     progress |-> FALSE,
     now |-> 0,
     folder |-> [path \in OutputPaths |-> 0],
     threads |-> [t \in Threads |-> NoThread]]

\* ---------------------------------------------------------------- web uploads
\* two upload requests
Requests == {1, 2}

\* what a request posts: the suffix of the file name ("none" without a file), the
\* min_click field as typed, and the columns of the table in the file
Posts ==
    {[ext |-> "none", min_click |-> "10", columns |-> AllColumns],
     [ext |-> "txt", min_click |-> "10", columns |-> AllColumns],
     [ext |-> "csv", min_click |-> "abc", columns |-> AllColumns],
     [ext |-> "csv", min_click |-> "10", columns |-> AllColumns \ {"click"}],
     [ext |-> "CSV", min_click |-> "10", columns |-> AllColumns],
     [ext |-> "csv", min_click |-> "10", columns |-> AllColumns]}

\* ALLOWED_EXTENSIONS
ALLOWED_EXTENSIONS == {"xlsx", "xls", "csv"}

\* allowed_file(filename)
allowed_file(e) == Lower(e) \in ALLOWED_EXTENSIONS

\* int(text)
IsInteger(text) == text = "10"

\* a request that has not arrived
NoRequest ==
    [pc |-> "none", post |-> [ext |-> "none", min_click |-> "10", columns |-> AllColumns],
     timestamp |-> 0, upload |-> 0, report |-> 0, status |-> 0]

\* nothing stored: upload_files and report_files give, for the timestamp in the file
\* name, the request whose data the file holds (0 for no file); upload_rows and
\* report_rows are the rows of the two tables
WebApplication ==
    [now |-> 0,
     upload_files |-> [ts \in 0..MaxTime |-> 0],
     report_files |-> [ts \in 0..MaxTime |-> 0],
     upload_rows |-> {},
     report_rows |-> {},
     requests |-> [r \in Requests |-> NoRequest]]

\* ---------------------------------------------------------------- database
\* before psycopg2.connect: conn = None, nothing called, nothing raised
NoConnection ==
    [pc |-> "connect", conn |-> "None", calls |-> <<>>, body |-> "none",
     committed |-> FALSE, raising |-> "none", raised |-> "none"]

\* a call of the driver returns or raises
CallOutcomes == {"returns", "raises"}

\* ---------------------------------------------------------------- state
VARIABLES
    prog,                \* the entry point that runs
    pc,                  \* its position
    input,               \* the table in the input file
    min_click_threshold,
    ext,                 \* the end of the file name
    columns,             \* the columns the file has
    runs_left,           \* further run_analysis calls the caller makes on the instance
    df,                  \* the working table: the five pipeline columns of its rows
    df_index,            \* df.index: the label of each row
    date_dtype,          \* the dtype of df['日期']
    original_count,      \* len(df) before the filters
    after_click_filter,  \* len(df) after the threshold filter
    after_anomaly_filter,\* len(df) after the anomaly filter
    overall_metrics,
    event_analysis,      \* the per-event table, sorted
    platform_analysis,
    date_analysis,
    top_n,               \* the truncation length used
    top_modules,         \* the ranking
    visualizations,      \* the charts, as <<title, data>>
    max_loss_stage,      \* [stage, loss]
    insights,            \* self.insights: [title, modules]
    report,              \* the rows of the ranking table as written to the report
    steps,               \* the steps this run has executed, in order
    error,               \* the exception this run has met
    result,              \* what the caller gets: "none" yet, "True", "False", "raised"
    gui,                 \* the window of analyzer_gui.py, its worker threads and its folder
    web,                 \* the upload requests of a web application and what it has stored
    db                   \* one use of get_db_connection

given == <<prog, input, min_click_threshold, ext, columns>>
frame == <<df, df_index, date_dtype>>
counts == <<original_count, after_click_filter, after_anomaly_filter>>
dimensions == <<platform_analysis, date_analysis>>
outcome == <<error, result>>
services == <<gui, web, db>>

pipeline == <<prog, pc, input, min_click_threshold, ext, columns, runs_left, df, df_index,
              date_dtype, original_count, after_click_filter, after_anomaly_filter,
          overall_metrics, event_analysis, platform_analysis, date_analysis, top_n,
          top_modules, visualizations, max_loss_stage, insights, report, steps, error,
              result>>

vars == <<pipeline, services>>

\* the pipeline has no file of its own when one of the services runs
NoFile == [data |-> <<>>, t |-> DefaultThreshold, ext |-> "csv", columns |-> AllColumns]

\* the generated tables arrive as complete csv files
GeneratedFiles ==
    {[data |-> in.data, t |-> in.t, ext |-> "csv", columns |-> AllColumns] : in \in Inputs}

Init ==
    /\ prog \in Programs \cup Services
    /\ pc = "start"
    /\ \E in \in (IF prog \in Programs THEN GeneratedFiles \cup FileInputs ELSE {NoFile}) :
        /\ input = in.data
        /\ min_click_threshold = in.t
        /\ ext = in.ext
        /\ columns = in.columns
        /\ runs_left \in (IF prog = "funnel_analyzer" /\ in \in RerunInputs
                            THEN 0..MaxReruns ELSE {0})
    /\ df = <<>>
    /\ df_index = <<>>
    /\ date_dtype = "absent"
    /\ original_count = 0
    /\ after_click_filter = 0
    /\ after_anomaly_filter = 0
    /\ overall_metrics = NoMetrics
    /\ event_analysis = <<>>
    /\ platform_analysis = NoFrame
    /\ date_analysis = NoFrame
    /\ top_n = 0
    /\ top_modules = <<>>
    /\ visualizations = <<>>
    /\ max_loss_stage = NoStage
    /\ insights = <<>>
    /\ report = <<>>
    /\ steps = <<>>
    /\ error = NoError
    /\ result = "none"
    /\ gui = FunnelAnalyzerGUI
    /\ web = WebApplication
    /\ db = NoConnection

\* an exception leaves the method and, uncaught in run_analysis, reaches the caller
Raise(e) ==
    /\ error' = e
    /\ result' = "raised"
    /\ pc' = "failed"

\* FunnelAnalyzer.load_data, and run_analysis returning False when it fails: the
\* ValueError of an unsupported suffix is caught in load_data, printed, and turned
\* into the return value False
load_data ==
    /\ prog = "funnel_analyzer"
    /\ pc = "start"
    /\ IF Supported(ext)
        THEN /\ df' = input
             /\ df_index' = RangeIndex(Len(input))
             /\ date_dtype' = ReadDtype(ext, columns)
             /\ steps' = Log(steps, "load_data")
             /\ pc' = "loaded"
             /\ UNCHANGED outcome
        ELSE /\ error' = UnsupportedFormat
             /\ result' = "False"
             /\ pc' = "failed"
             /\ UNCHANGED <<frame, steps>>
    /\ UNCHANGED <<given, services, runs_left, counts, overall_metrics, event_analysis, dimensions,
                   top_n, top_modules, visualizations, max_loss_stage, insights, report>>

\* FunnelAnalyzer.audit_and_clean; a caller may invoke it again on the cleaned table.
\* A missing column is only printed by the field check; the KeyError comes from the
\* line that reads the column.
audit_and_clean ==
    /\ prog = "funnel_analyzer"
    /\ pc \in {"loaded", "cleaned"}
    /\ LET has_click == "click" \in columns
           has_exposure == "exposure" \in columns
           l1 == ThresholdFilter(Labelled(df, df_index), min_click_threshold)
           d1 == Values(l1)
           i1 == Labels(l1)
           l2 == AnomalyFilter(l1)
           d2 == Values(l2)
           i2 == Labels(l2)
       IN  /\ original_count' = Len(df)
           /\ IF ~has_click
                THEN /\ Raise(KeyError("click"))
                     /\ UNCHANGED <<frame, after_click_filter, after_anomaly_filter, steps>>
              ELSE IF ~has_exposure
                THEN /\ df' = d1
                     /\ df_index' = i1
                     /\ after_click_filter' = Len(d1)
                     /\ steps' = Log(steps, "threshold_filter")
                     /\ Raise(KeyError("exposure"))
                     /\ UNCHANGED <<date_dtype, after_anomaly_filter>>
              ELSE /\ df' = d2
                   /\ df_index' = i2
                   /\ after_click_filter' = Len(d1)
                   /\ after_anomaly_filter' = Len(d2)
                   /\ steps' = Log(Log(steps, "threshold_filter"), "anomaly_filter")
                   /\ pc' = "cleaned"
                   /\ UNCHANGED <<date_dtype, outcome>>
    /\ UNCHANGED <<given, services, runs_left, overall_metrics, event_analysis, dimensions, top_n,
                   top_modules, visualizations, max_loss_stage, insights, report>>

\* FunnelAnalyzer.multi_dimensional_analysis
multi_dimensional_analysis ==
    /\ prog = "funnel_analyzer"
    /\ pc = "cleaned"
    /\ IF "submit" \notin columns \/ "order" \notin columns
        THEN /\ Raise(KeyError(IF "submit" \notin columns THEN "submit" ELSE "order"))
             /\ UNCHANGED <<frame, overall_metrics, event_analysis, dimensions, steps>>
       ELSE IF "event" \notin columns
        THEN /\ overall_metrics' = calculate_metrics(df)
             /\ steps' = Log(steps, "overall_metrics")
             /\ Raise(KeyError("event"))
             /\ UNCHANGED <<frame, event_analysis, dimensions>>
       ELSE IF df = <<>>
        THEN /\ overall_metrics' = calculate_metrics(df)
             /\ steps' = Log(steps, "overall_metrics")
             /\ \E e \in EmptyGroupErrors : Raise(e)
             /\ UNCHANGED <<frame, event_analysis, dimensions>>
       ELSE /\ overall_metrics' = calculate_metrics(df)
            /\ event_analysis' \in SortValues(GroupedEvents(df))
            /\ platform_analysis' =
                    IF "platform" \in columns
                        THEN Frame(DimensionAnalysis(df, df_index, "platform"))
                        ELSE platform_analysis
            /\ date_dtype' = IF "date" \in columns THEN to_datetime(date_dtype) ELSE date_dtype
            /\ date_analysis' =
                    IF "date" \in columns
                        THEN Frame(DimensionAnalysis(df, df_index, "date"))
                        ELSE date_analysis
            /\ steps' = steps \o Executed(<< <<TRUE, "overall_metrics">>,
                                             <<TRUE, "event_analysis">>,
                                             <<"platform" \in columns, "platform_analysis">>,
                                             <<"date" \in columns, "date_analysis">> >>)
            /\ pc' = "analysed"
            /\ UNCHANGED <<df, df_index, outcome>>
    /\ UNCHANGED <<given, services, runs_left, counts, top_n, top_modules, visualizations,
                   max_loss_stage, insights, report>>

\* FunnelAnalyzer.generate_top_list(top_n)
generate_top_list ==
    /\ prog = "funnel_analyzer"
    /\ pc = "analysed"
    /\ \E n \in TopNs :
        /\ top_n' = n
        /\ top_modules' = InsertRank(HeadN(event_analysis, n))
    /\ steps' = Log(steps, "top_list")
    /\ pc' = "ranked"
    /\ UNCHANGED <<given, services, runs_left, frame, counts, overall_metrics, event_analysis,
                   dimensions, visualizations, max_loss_stage, insights, report, outcome>>

\* the two charts of generate_visualizations: the trend of the last ten dates, when the
\* instance has a date_analysis attribute with entries, and the ten first modules
Charts(dates, top) ==
    (IF dates.set /\ Len(dates.rows) > 0
        THEN << <<"trend", TailN(dates.rows, 10)>> >> ELSE <<>>)
    \o << <<"top10", [i \in 1..Len(HeadN(top, 10)) |-> <<top[i].name, top[i].ctr>>]>> >>

\* FunnelAnalyzer.generate_visualizations
generate_visualizations ==
    /\ prog = "funnel_analyzer"
    /\ pc = "ranked"
    /\ visualizations' = Charts(date_analysis, top_modules)
    /\ steps' = Log(steps, "visualizations")
    /\ pc' = "visualized"
    /\ UNCHANGED <<given, services, runs_left, frame, counts, overall_metrics, event_analysis,
                   dimensions, top_n, top_modules, max_loss_stage, insights, report, outcome>>

\* FunnelAnalyzer.generate_insights
generate_insights ==
    /\ prog = "funnel_analyzer"
    /\ pc = "visualized"
    /\ max_loss_stage' = MaxWithKey(Loss(overall_metrics.ctr),
                                    Loss(overall_metrics.click_cvr),
                                    Loss(overall_metrics.order_cvr))
    /\ LET low_ctr == HeadN(LowCtr(event_analysis, overall_metrics.ctr), 5)
       IN  insights' =
                << Insight("funnel_loss", <<>>),
                   Insight("top_modules", Names(HeadN(top_modules, 5))) >>
                \o (IF Len(low_ctr) > 0 THEN << Insight("low_efficiency", Names(low_ctr)) >>
                    ELSE <<>>)
                \o << Insight("suggestions", <<>>) >>
    /\ steps' = Log(steps, "insights")
    /\ pc' = "insights"
    /\ UNCHANGED <<given, services, runs_left, frame, counts, overall_metrics, event_analysis,
                   dimensions, top_n, top_modules, visualizations, report, outcome>>

\* FunnelAnalyzer.generate_markdown_report, and run_analysis returning True
generate_markdown_report ==
    /\ prog = "funnel_analyzer"
    /\ pc = "insights"
    /\ report' = MarkdownRows(top_modules)
    /\ steps' = Log(steps, "report")
    /\ result' = "True"
    /\ pc' = "done"
    /\ UNCHANGED <<given, services, runs_left, frame, counts, overall_metrics, event_analysis,
                   dimensions, top_n, top_modules, visualizations, max_loss_stage, insights, error>>

\* the caller points the instance at another file and calls run_analysis again: the
\* attributes of the instance stay as the last run left them
run_analysis_again ==
    /\ prog = "funnel_analyzer"
    /\ pc = "done"
    /\ runs_left > 0
    /\ runs_left' = runs_left - 1
    /\ \E in \in RerunInputs :
        /\ input' = in.data
        /\ ext' = in.ext
        /\ columns' = in.columns
    /\ original_count' = 0
    /\ after_click_filter' = 0
    /\ after_anomaly_filter' = 0
    /\ steps' = <<>>
    /\ error' = NoError
    /\ result' = "none"
    /\ pc' = "start"
    /\ UNCHANGED <<prog, services, min_click_threshold, frame, overall_metrics, event_analysis,
                   dimensions, top_n, top_modules, visualizations, max_loss_stage, insights, report>>

\* the part the three report functions have in common, line for line: the suffix test,
\* the two filters, the overall block, the grouped table, its sort, head(50), then, with
\* with_trend, the date trend and the loss analysis, and the table rows of the report.
\* The first line that cannot run raises, and the lines before it have run.
FunctionPipeline(e, with_trend) ==
    LET loaded == Supported(e)
        filtered1 == loaded /\ "click" \in columns
        filtered2 == filtered1 /\ "exposure" \in columns
        summed == filtered2 /\ "submit" \in columns /\ "order" \in columns
        grouped == summed /\ "event" \in columns
        dated == grouped /\ with_trend /\ "date" \in columns
        l1 == ThresholdFilter(Labelled(input, RangeIndex(Len(input))), min_click_threshold)
        d1 == Values(l1)
        i1 == Labels(l1)
        l2 == AnomalyFilter(l1)
        d2 == Values(l2)
        i2 == Labels(l2)
        complete == grouped /\ (with_trend => dated /\ d2 # <<>>)
        raised ==
            IF ~loaded THEN UnsupportedFormat
            ELSE IF ~filtered1 THEN KeyError("click")
            ELSE IF ~filtered2 THEN KeyError("exposure")
            ELSE IF ~summed THEN KeyError(IF "submit" \notin columns THEN "submit" ELSE "order")
            ELSE IF ~grouped THEN KeyError("event")
            ELSE IF with_trend /\ ~dated THEN KeyError("date")
            ELSE IF with_trend /\ d2 = <<>> THEN EmptyTrendError
            ELSE NoError
    IN  /\ original_count' = IF loaded THEN Len(input) ELSE 0
        /\ after_click_filter' = IF filtered1 THEN Len(d1) ELSE 0
        /\ after_anomaly_filter' = IF filtered2 THEN Len(d2) ELSE 0
        /\ df' = IF filtered2 THEN d2 ELSE IF filtered1 THEN d1 ELSE IF loaded THEN input ELSE <<>>
        /\ df_index' = IF filtered2 THEN i2 ELSE IF filtered1 THEN i1
                       ELSE IF loaded THEN RangeIndex(Len(input)) ELSE <<>>
        /\ date_dtype' = IF dated THEN to_datetime(ReadDtype(e, columns))
                         ELSE IF loaded THEN ReadDtype(e, columns) ELSE "absent"
        /\ overall_metrics' = IF summed THEN overall_block(d2) ELSE NoMetrics
        /\ event_analysis' \in (IF grouped THEN SortValues(GroupedEvents(d2)) ELSE {<<>>})
        /\ top_n' = IF grouped THEN TopN ELSE 0
        /\ top_modules' = IF grouped THEN HeadN(event_analysis', TopN) ELSE <<>>
        /\ date_analysis' = IF dated THEN Frame(DateTrend(d2, i2)) ELSE NoFrame
        /\ max_loss_stage' =
                IF complete /\ with_trend
                    THEN IfElifStage(Loss(overall_metrics'.ctr),
                                     Loss(overall_metrics'.click_cvr),
                                     Loss(overall_metrics'.order_cvr))
                    ELSE NoStage
        /\ insights' = <<>>
        /\ report' = IF complete THEN HtmlRows(top_modules') ELSE <<>>
        /\ steps' = Executed(<< <<loaded, "load_data">>,
                                <<filtered1, "threshold_filter">>,
                                <<filtered2, "anomaly_filter">>,
                                <<summed, "overall_metrics">>,
                                <<grouped, "event_analysis">>,
                                <<grouped, "top_list">>,
                                <<dated, "date_analysis">>,
                                <<complete /\ with_trend, "insights">>,
                                <<complete, "report">> >>)
        /\ error' = raised
        /\ result' = IF complete THEN "returned" ELSE "raised"
        /\ pc' = IF complete THEN "done" ELSE "failed"
        /\ UNCHANGED <<given, services, runs_left, platform_analysis, visualizations>>

\* generate_offline_report.generate_offline_html_report
generate_offline_html_report ==
    /\ prog = "offline"
    /\ pc = "start"
    /\ FunctionPipeline(ext, TRUE)

\* generate_html_report.generate_html_report
generate_html_report ==
    /\ prog = "html"
    /\ pc = "start"
    /\ FunctionPipeline(ext, TRUE)

\* api/index.analyze_data_from_bytes with generate_simple_html_report: the suffix is
\* lower-cased, and there is neither a date trend nor a loss analysis
analyze_data_from_bytes ==
    /\ prog = "api"
    /\ pc = "start"
    /\ FunctionPipeline(Lower(ext), FALSE)

\* ---------------------------------------------------------------- analyzer_gui.py
\* a thread that has returned: its locals are gone, its last status line is noted
Returned(th) == [NoThread EXCEPT !.pc = "finished", !.final = th.final]

\* everything but the window stays
GuiStep(next_gui) ==
    /\ prog = "gui"
    /\ gui' = next_gui
    /\ UNCHANGED <<pipeline, web, db>>

\* the positions of the worker threads
ThreadPcs == {gui.threads[t].pc : t \in Threads}

\* a second passes, as long as a thread has the clock to read
Tick ==
    /\ gui.now < MaxTime
    /\ ThreadPcs \cap {"none", "started"} # {}
    /\ GuiStep([gui EXCEPT !.now = @ + 1])

\* FunnelAnalyzerGUI.select_file, as long as a click has the selection to read
select_file ==
    \E f \in Files :
        /\ f # gui.file_path_var
        /\ "none" \in ThreadPcs
        /\ GuiStep([gui EXCEPT !.file_path_var = f, !.status_var = "idle"])

\* the user sets the spinbox, as long as a thread has it to read
SetThreshold ==
    \E v \in SpinboxValues :
        /\ v # gui.threshold_var
        /\ ThreadPcs \cap {"none", "started"} # {}
        /\ GuiStep([gui EXCEPT !.threshold_var = v])

\* the user ticks or unticks a report type, before the first click
SetReportTypes ==
    /\ ThreadPcs = {"none"}
    /\ \/ GuiStep([gui EXCEPT !.html_var = ~@])
       \/ GuiStep([gui EXCEPT !.md_var = ~@])

\* FunnelAnalyzerGUI.generate_report: with a file and a report type selected, a daemon
\* thread is started for this click, whether or not an earlier one still runs
generate_report ==
    \E t \in Threads :
        /\ gui.threads[t].pc = "none"
        /\ \A u \in Threads : u < t => gui.threads[u].pc # "none"
        /\ gui.file_path_var # "none"
        /\ gui.html_var \/ gui.md_var
        /\ GuiStep([gui EXCEPT !.threads[t] =
                        [@ EXCEPT !.pc = "started", !.file_path = gui.file_path_var]])

\* _generate_report_thread, lines 297-304: the bar starts, a progress message is
\* shown, the spinbox and the clock are read
ThreadBegin(t) ==
    /\ gui.threads[t].pc = "started"
    /\ GuiStep([gui EXCEPT !.progress = TRUE,
                           !.status_var = "working",
                           !.threads[t] = [@ EXCEPT !.threshold = gui.threshold_var,
                                                    !.timestamp = Timestamp(gui.now),
                                                    !.generated_files = <<>>,
                                                    !.pc = "html"]])

\* what subprocess.run gives: the exit code of the child, or OSError when it cannot start
ChildOutcomes ==
    {[raised |-> FALSE, returncode |-> 0],
     [raised |-> FALSE, returncode |-> 1],
     [raised |-> TRUE, returncode |-> 1]}

\* a child that exits with 0 has written its report; the report functions write the
\* file as their last step
Written(folder, path, out, t) ==
    IF ~out.raised /\ out.returncode = 0 THEN [folder EXCEPT ![path] = t] ELSE folder

\* lines 307-323: python3 generate_offline_report.py file_path html_output; the child
\* gets no threshold and generate_offline_html_report runs with its default
ThreadHtml(t) ==
    LET th == gui.threads[t]
        path == html_output(th.timestamp)
    IN  /\ th.pc = "html"
        /\ IF ~gui.html_var
            THEN GuiStep([gui EXCEPT !.threads[t] = [@ EXCEPT !.pc = "md"]])
           ELSE \E out \in ChildOutcomes :
                GuiStep([gui EXCEPT
                    !.status_var = "working",
                    !.folder = Written(@, path, out, t),
                    !.threads[t] =
                        IF out.raised THEN [@ EXCEPT !.pc = "except"]
                        ELSE [@ EXCEPT !.html_min_click = DefaultThreshold,
                                       !.returncodes = Append(@, out.returncode),
                                       !.generated_files =
                                            IF out.returncode = 0 THEN Append(@, path) ELSE @,
                                       !.pc = "md"]])

\* lines 326-343: python3 funnel_analyzer.py file_path -o md_output --min-click threshold
ThreadMd(t) ==
    LET th == gui.threads[t]
        path == md_output(th.timestamp)
    IN  /\ th.pc = "md"
        /\ IF ~gui.md_var
            THEN GuiStep([gui EXCEPT !.threads[t] = [@ EXCEPT !.pc = "stop"]])
           ELSE \E out \in ChildOutcomes :
                GuiStep([gui EXCEPT
                    !.status_var = "working",
                    !.folder = Written(@, path, out, t),
                    !.threads[t] =
                        IF out.raised THEN [@ EXCEPT !.pc = "except"]
                        ELSE [@ EXCEPT !.md_min_click = th.threshold,
                                       !.returncodes = Append(@, out.returncode),
                                       !.generated_files =
                                            IF out.returncode = 0 THEN Append(@, path) ELSE @,
                                       !.pc = "stop"]])

\* line 346: self.progress.stop()
ThreadStop(t) ==
    /\ gui.threads[t].pc = "stop"
    /\ GuiStep([gui EXCEPT !.progress = FALSE, !.threads[t] = [@ EXCEPT !.pc = "status"]])

\* mutant: the status line says done whatever the children returned
ThreadStatus_AlwaysDone(t) ==
    /\ gui.threads[t].pc = "status"
    /\ GuiStep([gui EXCEPT !.status_var = "done",
                           !.threads[t] = [@ EXCEPT !.final = "done", !.pc = "askyesno"]])

\* lines 348-364: the status line, then the dialog
ThreadStatus(t) ==
    LET th == gui.threads[t]
        status == IF th.generated_files # <<>> THEN "done" ELSE "failed"
    IN  /\ th.pc = "status"
        /\ GuiStep([gui EXCEPT !.status_var = status,
                               !.threads[t] = [@ EXCEPT !.final = status,
                                                        !.pc = IF status = "done" THEN "askyesno"
                                                               ELSE "showerror"]])

\* lines 357-359: the user answers the dialog; on yes the first report is opened with
\* the command open, which raises OSError when the system has no such command
AnswerDialog(t) ==
    /\ gui.threads[t].pc = "askyesno"
    /\ \/ GuiStep([gui EXCEPT !.threads[t] = Returned(@)])
       \/ GuiStep([gui EXCEPT !.threads[t] = [@ EXCEPT !.pc = "except"]])

\* lines 366-369: except Exception
ThreadExcept(t) ==
    /\ gui.threads[t].pc = "except"
    /\ GuiStep([gui EXCEPT !.progress = FALSE,
                           !.status_var = "error",
                           !.threads[t] = [@ EXCEPT !.final = "error", !.pc = "showerror"]])

\* the user closes messagebox.showerror and the thread ends
CloseError(t) ==
    /\ gui.threads[t].pc = "showerror"
    /\ GuiStep([gui EXCEPT !.threads[t] = Returned(@)])

\* the steps a worker thread takes by itself
ThreadStep(t) ==
    \/ ThreadBegin(t)
    \/ ThreadHtml(t)
    \/ ThreadMd(t)
    \/ ThreadStop(t)
    \/ ThreadStatus(t)
    \/ ThreadExcept(t)

\* _generate_report_thread
_generate_report_thread == \E t \in Threads : ThreadStep(t)

\* the user at the dialogs
Dialogs == \E t \in Threads : AnswerDialog(t) \/ CloseError(t)

\* ---------------------------------------------------------------- app.py, api/index.py
\* everything but the web application stays
WebStep(next_web) ==
    /\ prog \in {"app_upload", "api_upload"}
    /\ web' = next_web
    /\ UNCHANGED <<pipeline, gui, db>>

\* a second passes, as long as a request is to come
WebTick ==
    /\ web.now < MaxTime
    /\ \E r \in Requests : web.requests[r].pc = "none"
    /\ WebStep([web EXCEPT !.now = @ + 1])

\* the response of a request
Respond(req, status) == [req EXCEPT !.pc = "responded", !.status = status]

\* the report function and analyze_data_from_bytes raise on a table without one of the
\* five pipeline columns
Analysable(post) == RequiredColumns \subseteq post.columns

\* app.py upload_file, lines 47-72: the three checks answer 400; otherwise the file is
\* saved as <timestamp>.<ext> in the upload folder
AppReceive(r) ==
    /\ prog = "app_upload"
    /\ web.requests[r].pc = "none"
    /\ \E post \in Posts :
        LET timestamp == Timestamp(web.now)
        IN  IF post.ext = "none" \/ ~allowed_file(post.ext)
                THEN WebStep([web EXCEPT !.requests[r] = Respond([@ EXCEPT !.post = post], 400)])
            ELSE WebStep([web EXCEPT
                    !.upload_files[timestamp] = r,
                    !.requests[r] = [@ EXCEPT !.post = post, !.timestamp = timestamp,
                                              !.pc = "saved"]])

\* app.py upload_file, lines 75-112: min_click is parsed, the report function reads the
\* saved file and writes report_<timestamp>.html; any exception answers 500
AppAnalyse(r) ==
    LET req == web.requests[r]
        stored == web.upload_files[req.timestamp]
        data == web.requests[stored].post
    IN  /\ prog = "app_upload"
        /\ req.pc = "saved"
        /\ IF ~IsInteger(req.post.min_click) \/ ~Analysable(data)
            THEN WebStep([web EXCEPT !.requests[r] = Respond(@, 500)])
           ELSE WebStep([web EXCEPT
                    !.report_files[req.timestamp] = stored,
                    !.requests[r] = Respond([@ EXCEPT !.report = stored], 200)])

\* SERIAL PRIMARY KEY: the next id of a table
NextId(rows) == Cardinality(rows) + 1

\* api/index.py upload_file, lines 286-307: the three checks answer 400; otherwise
\* save_upload inserts the row and commits
ApiReceive(r) ==
    /\ prog = "api_upload"
    /\ web.requests[r].pc = "none"
    /\ \E post \in Posts :
        LET upload_id == NextId(web.upload_rows)
        IN  IF post.ext = "none" \/ ~allowed_file(post.ext)
                THEN WebStep([web EXCEPT !.requests[r] = Respond([@ EXCEPT !.post = post], 400)])
            ELSE WebStep([web EXCEPT
                    !.upload_rows = @ \cup {[id |-> upload_id, data |-> r]},
                    !.requests[r] = [@ EXCEPT !.post = post, !.upload = upload_id,
                                              !.pc = "saved"]])

\* api/index.py upload_file, lines 310-330: min_click is parsed, the bytes of the
\* request are analysed, save_report inserts the row; any exception answers 500
ApiAnalyse(r) ==
    LET req == web.requests[r]
        report_id == NextId(web.report_rows)
    IN  /\ prog = "api_upload"
        /\ req.pc = "saved"
        /\ IF ~IsInteger(req.post.min_click) \/ ~Analysable(req.post)
            THEN WebStep([web EXCEPT !.requests[r] = Respond(@, 500)])
           ELSE WebStep([web EXCEPT
                    !.report_rows = @ \cup {[id |-> report_id, upload_id |-> req.upload, data |-> r]},
                    !.requests[r] = Respond([@ EXCEPT !.report = report_id], 200)])

\* the upload handler of either application, for any request
upload_file == \E r \in Requests : AppReceive(r) \/ AppAnalyse(r) \/ ApiReceive(r) \/ ApiAnalyse(r)

\* ---------------------------------------------------------------- api/db.py
\* everything but the connection stays
DbStep(next_db) ==
    /\ prog = "db"
    /\ db' = next_db
    /\ UNCHANGED <<pipeline, gui, web>>

\* line 20: conn = psycopg2.connect(...)
Connect ==
    /\ db.pc = "connect"
    /\ \E out \in CallOutcomes :
        DbStep(IF out = "returns"
                THEN [db EXCEPT !.conn = "open", !.calls = Append(@, "connect"), !.pc = "body"]
                ELSE [db EXCEPT !.calls = Append(@, "connect"), !.raising = "connect_error",
                                !.pc = "except"])

\* line 21: yield conn, the body of the with statement
Body ==
    /\ db.pc = "body"
    /\ \E out \in CallOutcomes :
        DbStep(IF out = "returns"
                THEN [db EXCEPT !.body = "completed", !.pc = "commit"]
                ELSE [db EXCEPT !.body = "raised", !.raising = "body_error", !.pc = "except"])

\* line 22: conn.commit()
Commit ==
    /\ db.pc = "commit"
    /\ \E out \in CallOutcomes :
        DbStep(IF out = "returns"
                THEN [db EXCEPT !.calls = Append(@, "commit"), !.committed = TRUE,
                                !.pc = "finally"]
                ELSE [db EXCEPT !.calls = Append(@, "commit"), !.raising = "commit_error",
                                !.pc = "except"])

\* mutant: the handler re-raises without a rollback
Except_NoRollback ==
    /\ db.pc = "except"
    /\ DbStep([db EXCEPT !.pc = "finally"])

\* lines 23-26: except Exception as e: if conn: conn.rollback(); raise e.  A rollback
\* that raises replaces the exception on its way
Except ==
    /\ db.pc = "except"
    /\ IF db.conn = "None"
        THEN DbStep([db EXCEPT !.pc = "finally"])
       ELSE \E out \in CallOutcomes :
            DbStep(IF out = "returns"
                    THEN [db EXCEPT !.calls = Append(@, "rollback"), !.pc = "finally"]
                    ELSE [db EXCEPT !.calls = Append(@, "rollback"),
                                    !.raising = "rollback_error", !.pc = "finally"])

\* lines 27-29: finally: if conn: conn.close(); then the exception on its way, if any,
\* reaches the caller
Finally ==
    /\ db.pc = "finally"
    /\ IF db.conn = "None"
        THEN DbStep([db EXCEPT !.raised = db.raising, !.pc = "end"])
       ELSE \E out \in CallOutcomes :
            DbStep(IF out = "returns"
                    THEN [db EXCEPT !.calls = Append(@, "close"), !.conn = "closed",
                                    !.raised = db.raising, !.pc = "end"]
                    ELSE [db EXCEPT !.calls = Append(@, "close"), !.raising = "close_error",
                                    !.raised = "close_error", !.pc = "end"])

\* get_db_connection
get_db_connection == Connect \/ Body \/ Commit \/ Except \/ Finally

Next ==
    \/ load_data
    \/ audit_and_clean
    \/ multi_dimensional_analysis
    \/ generate_top_list
    \/ generate_visualizations
    \/ generate_insights
    \/ generate_markdown_report
    \/ run_analysis_again
    \/ generate_offline_html_report
    \/ generate_html_report
    \/ analyze_data_from_bytes
    \/ Tick
    \/ select_file
    \/ SetThreshold
    \/ SetReportTypes
    \/ generate_report
    \/ _generate_report_thread
    \/ Dialogs
    \/ WebTick
    \/ upload_file
    \/ get_db_connection

Spec == Init /\ [][Next]_vars

\* the desktop window alone
GuiInit == prog = "gui" /\ Init

GuiNext ==
    \/ Tick
    \/ select_file
    \/ SetThreshold
    \/ SetReportTypes
    \/ generate_report
    \/ _generate_report_thread
    \/ Dialogs

\* the operating system lets every thread that can take a step take one
LiveSpec == GuiInit /\ [][GuiNext]_vars /\ \A t \in Threads : WF_vars(ThreadStep(t))

\* ---------------------------------------------------------------- claims
\* the steps this run has executed
Done == {steps[i] : i \in 1..Len(steps)}

Cleaned == "anomaly_filter" \in Done
Analysed == "event_analysis" \in Done
Ranked == "top_list" \in Done
HasInsights == "insights" \in Done

Min(a, b) == IF a < b THEN a ELSE b

\* v is num / den * 100 to the nearest hundredth
IsNearest(v, num, den) ==
    /\ v.k = "num"
    /\ 2 * (v.v * den - num * 10000) <= den
    /\ 2 * (num * 10000 - v.v * den) <= den

\* C1: in every implementation the cleaned table holds no row with click below the
\* threshold and no row with click above exposure
C1_CleanedRowsRespectRules ==
    Cleaned => \A i \in 1..Len(df) :
        /\ df[i].click >= min_click_threshold
        /\ df[i].click <= df[i].exposure

C1_Witness ==
    /\ prog = "api"
    /\ pc = "done"
    /\ original_count - after_click_filter > 0
    /\ after_click_filter - after_anomaly_filter > 0
    /\ Len(df) > 0

\* C2: the overall metrics carry the four column sums of the table, and ctr, click_cvr
\* and order_cvr are click/exposure, submit/click and order/click in percent to two
\* decimals (order_cvr over the click total); totals 200, 100, 10, 5 give 50.0, 10.0, 5.0
C2_MetricsAreSumsAndRatios ==
    Analysed =>
        /\ overall_metrics.exposure = SumOf(df, "exposure")
        /\ overall_metrics.click = SumOf(df, "click")
        /\ overall_metrics.convert = SumOf(df, "submit")
        /\ overall_metrics.order = SumOf(df, "order")
        /\ overall_metrics.exposure > 0 =>
            IsNearest(overall_metrics.ctr, overall_metrics.click, overall_metrics.exposure)
        /\ overall_metrics.click > 0 =>
            /\ IsNearest(overall_metrics.click_cvr, overall_metrics.convert, overall_metrics.click)
            /\ IsNearest(overall_metrics.order_cvr, overall_metrics.order, overall_metrics.click)
        /\ (/\ overall_metrics.exposure = 200
            /\ overall_metrics.click = 100
            /\ overall_metrics.convert = 10
            /\ overall_metrics.order = 5) =>
            /\ overall_metrics.ctr = Num(5000)
            /\ overall_metrics.click_cvr = Num(1000)
            /\ overall_metrics.order_cvr = Num(500)

C2_Witness ==
    /\ prog = "funnel_analyzer"
    /\ pc = "analysed"
    /\ overall_metrics.exposure = 200
    /\ overall_metrics.click = 100
    /\ overall_metrics.convert = 10
    /\ overall_metrics.order = 5

\* C3: a zero exposure total gives ctr = 0 and a zero click total gives click_cvr = 0 and
\* order_cvr = 0, as numbers
C3_ZeroDenominatorGivesZero ==
    Analysed =>
        /\ overall_metrics.exposure = 0 => overall_metrics.ctr = Num(0)
        /\ overall_metrics.click = 0 =>
            /\ overall_metrics.click_cvr = Num(0)
            /\ overall_metrics.order_cvr = Num(0)

C3_Witness ==
    /\ prog = "funnel_analyzer"
    /\ pc = "analysed"
    /\ Len(df) > 0
    /\ overall_metrics.exposure = 0
    /\ overall_metrics.click = 0
    /\ overall_metrics.convert > 0

\* C4: every entry of the per-event table carries the metrics of its event's partition
\* of the cleaned table, a ratio being 0 where its denominator is 0
C4_GroupedEqualsPartitionMetrics ==
    Analysed => \A i \in 1..Len(event_analysis) :
        LET g == event_analysis[i]
            m == calculate_metrics(Partition(df, g.name))
        IN  /\ g.exposure = m.exposure
            /\ g.click = m.click
            /\ g.convert = m.convert
            /\ g.order = m.order
            /\ g.ctr = m.ctr
            /\ g.click_cvr = m.click_cvr
            /\ g.order_cvr = m.order_cvr

InScenarioThreshold ==
    /\ input = ScenarioThreshold.data
    /\ min_click_threshold = ScenarioThreshold.t

\* C5 as stated: on exposure = [100, 50, 10], click = [20, 5, 20], threshold 10, only
\* row 2 is dropped, and the rest total exposure 110, click 40, ctr 36.36
C5_OnlyRowTwoDropped ==
    InScenarioThreshold =>
        /\ Cleaned => df = <<ScenarioThreshold.data[1], ScenarioThreshold.data[3]>>
        /\ Analysed =>
            /\ overall_metrics.exposure = 110
            /\ overall_metrics.click = 40
            /\ overall_metrics.ctr = Num(3636)

\* C5 as amended: on that table rule 1 drops row 2 and rule 2 drops row 3 (click 20
\* above exposure 10); row 1 is left, with exposure 100, click 20, ctr 20.0
C5_RowsTwoAndThreeDropped ==
    InScenarioThreshold =>
        /\ Cleaned => df = <<ScenarioThreshold.data[1]>>
        /\ (Cleaned /\ original_count = Len(input)) =>
            /\ original_count - after_click_filter = 1
            /\ after_click_filter - after_anomaly_filter = 1
        /\ Analysed =>
            /\ overall_metrics.exposure = 100
            /\ overall_metrics.click = 20
            /\ overall_metrics.ctr = Num(2000)

C5_Witness ==
    /\ InScenarioThreshold
    /\ prog = "funnel_analyzer"
    /\ pc = "analysed"
    /\ original_count = 3

\* C6: in every ranking an earlier entry's ctr is greater than or equal to a later one's
C6_RankingSortedDescending ==
    Ranked => \A i, j \in 1..Len(top_modules) :
        i < j => FGeq(top_modules[i].ctr, top_modules[j].ctr)

\* C7: in every written report the ranking row k shows rank k
C7_DisplayedRankIsPosition ==
    pc = "done" => \A k \in 1..Len(report) : report[k].rank = k

\* C8: the ranking has min(number of event groups, top_n) entries, and they are the
\* first entries of the sorted per-event table
C8_RankingLength ==
    Ranked =>
        /\ Len(event_analysis) = Cardinality({df[i].event : i \in 1..Len(df)})
        /\ Len(top_modules) = Min(Len(event_analysis), top_n)
        /\ \A k \in 1..Len(top_modules) : top_modules[k].name = event_analysis[k].name

C8_Witness ==
    /\ prog = "funnel_analyzer"
    /\ pc = "ranked"
    /\ top_n = 2
    /\ Len(event_analysis) = 3
    /\ Len(top_modules) = 2

\* C9: the dominant stage has the greatest of the three losses and is the earliest of
\* the stages that have it, under max-with-key and under if/elif; ctr 80, click_cvr 50,
\* order_cvr 10 select conversion-to-order
C9_DominantStageIsEarliestMaximum ==
    HasInsights =>
        LET losses == <<Loss(overall_metrics.ctr), Loss(overall_metrics.click_cvr),
                        Loss(overall_metrics.order_cvr)>>
        IN  /\ \E k \in 1..3 :
                /\ max_loss_stage.stage = StageNames[k]
                /\ max_loss_stage.loss = losses[k]
                /\ \A j \in 1..3 : losses[j].v <= losses[k].v
                /\ \A j \in 1..3 : j < k => losses[j].v < losses[k].v
            /\ (/\ overall_metrics.ctr = Num(8000)
                /\ overall_metrics.click_cvr = Num(5000)
                /\ overall_metrics.order_cvr = Num(1000)) =>
                max_loss_stage = [stage |-> "conversion_to_order", loss |-> Num(9000)]

C9_Witness ==
    /\ prog = "funnel_analyzer"
    /\ pc = "insights"
    /\ overall_metrics.click_cvr = overall_metrics.order_cvr
    /\ overall_metrics.ctr.v > overall_metrics.click_cvr.v
    /\ max_loss_stage.stage = "click_to_conversion"

\* C10: cleaning the cleaned table again with the same threshold leaves it as it is, and
\* both removal counts of that pass are 0
C10_CleanIdempotent ==
    [][(pc = "cleaned" /\ pc' = "cleaned") =>
        /\ df' = df
        /\ original_count' - after_click_filter' = 0
        /\ after_click_filter' - after_anomaly_filter' = 0]_vars

C10_Witness ==
    /\ pc = "cleaned"
    /\ Len(input) > Len(df)
    /\ Len(df) > 0
    /\ original_count = Len(df)
    /\ after_anomaly_filter = Len(df)

\* C11: the cleaned table is a subsequence of the input: its rows are input rows, in
\* input order, each with the values it had in the file, and right after cleaning the
\* date column is as it was read
C11_CleanedIsSubsequence ==
    Cleaned =>
        /\ Len(df_index) = Len(df)
        /\ \A k \in 1..Len(df) :
            /\ df_index[k] \in 0..(Len(input) - 1)
            /\ df[k] = input[df_index[k] + 1]
        /\ \A j, k \in 1..Len(df) : j < k => df_index[j] < df_index[k]
        /\ pc = "cleaned" => date_dtype = ReadDtype(ext, columns)

C11_Witness ==
    /\ Cleaned
    /\ Len(input) = 3
    /\ df_index = <<0, 2>>
    /\ df = <<input[1], input[3]>>

\* a ratio that is at least 0, and one that is at most 100
NonNegative(x) == FGeq(x, Num(0))
AtMost100(x) == FGeq(Num(10000), x)

\* C12: the ctr, click_cvr and order_cvr of the overall metrics and of every group
\* (event, platform, date) are at least 0, and on the cleaned table the overall ctr and
\* every per-event ctr are at most 100
C12_RatiosInRange ==
    /\ "overall_metrics" \in Done =>
        /\ NonNegative(overall_metrics.ctr)
        /\ NonNegative(overall_metrics.click_cvr)
        /\ NonNegative(overall_metrics.order_cvr)
        /\ AtMost100(overall_metrics.ctr)
    /\ Analysed => \A i \in 1..Len(event_analysis) :
        /\ NonNegative(event_analysis[i].ctr)
        /\ NonNegative(event_analysis[i].click_cvr)
        /\ NonNegative(event_analysis[i].order_cvr)
        /\ AtMost100(event_analysis[i].ctr)
    /\ "platform_analysis" \in Done => \A i \in 1..Len(platform_analysis.rows) :
        /\ NonNegative(platform_analysis.rows[i].ctr)
        /\ NonNegative(platform_analysis.rows[i].click_cvr)
        /\ NonNegative(platform_analysis.rows[i].order_cvr)
    /\ "date_analysis" \in Done => \A i \in 1..Len(date_analysis.rows) :
        /\ NonNegative(date_analysis.rows[i].ctr)
        /\ NonNegative(date_analysis.rows[i].click_cvr)
        /\ NonNegative(date_analysis.rows[i].order_cvr)

\* C13: when no row survives cleaning of a complete file, no later step raises, and
\* the overall ctr, click_cvr and order_cvr are 0
C13_EmptyTableRunsThrough ==
    (Cleaned /\ df = <<>> /\ columns = AllColumns) =>
        /\ error = NoError
        /\ pc # "failed"
        /\ "overall_metrics" \in Done =>
            /\ overall_metrics.ctr = Num(0)
            /\ overall_metrics.click_cvr = Num(0)
            /\ overall_metrics.order_cvr = Num(0)

\* the required columns the file lacks
Missing == RequiredColumns \ columns

\* C14: a run on a loaded file that lacks a required column fails with an error naming
\* a missing column, and it fails before any filter is applied or any metric computed
C14_MissingColumnFailsFirst ==
    ("load_data" \in Done /\ Missing # {}) =>
        /\ Done = {"load_data"}
        /\ pc # "done"
        /\ pc = "failed" => error.type = "KeyError" /\ error.arg \in Missing

\* no step of the pipeline has left a trace
NothingExecuted ==
    /\ steps = <<>>
    /\ df = <<>>
    /\ original_count = 0
    /\ overall_metrics = NoMetrics
    /\ event_analysis = <<>>
    /\ top_modules = <<>>
    /\ visualizations = <<>>
    /\ max_loss_stage = NoStage
    /\ report = <<>>

\* C15 as stated: for a file name ending in none of .xlsx, .xls, .csv the run fails with
\* the unsupported-format error raised to the caller, and no step is executed
C15_UnsupportedSuffixRaises ==
    (ext \notin {"xlsx", "xls", "csv"} /\ pc # "start") =>
        /\ pc = "failed"
        /\ error = UnsupportedFormat
        /\ result = "raised"
        /\ NothingExecuted

\* C15 as amended: for a file name ending in none of .xlsx, .xls, .csv (as written, and
\* in analyze_data_from_bytes after lower-casing) the run fails on the unsupported
\* format and no step is executed; the three report functions raise the error, while
\* FunnelAnalyzer catches it in load_data and run_analysis returns False
C15_UnsupportedSuffixFails ==
    (/\ ext \notin {"xlsx", "xls", "csv"}
     /\ prog = "api" => ext # "CSV"
     /\ pc # "start") =>
        /\ pc = "failed"
        /\ error = UnsupportedFormat
        /\ result = IF prog = "funnel_analyzer" THEN "False" ELSE "raised"
        /\ NothingExecuted

C15_Witness ==
    /\ prog = "funnel_analyzer"
    /\ ext = "txt"
    /\ pc = "failed"
    /\ result = "False"
    /\ input # <<>>

\* C16: a run on a file with the five required columns and neither the platform nor
\* the date column, of which rows survive cleaning, does not fail in any implementation
C16_OptionalColumnsOptional ==
    (columns = RequiredColumns /\ Cleaned /\ df # <<>>) =>
        /\ pc # "failed"
        /\ error = NoError

\* C17: the sort of the per-event table is stable: of two entries with equal ctr the
\* one that stood first before the sort (idx, the position in group order) comes first
C17_SortIsStable ==
    Analysed => \A i, j \in 1..Len(event_analysis) :
        (i < j /\ event_analysis[i].ctr = event_analysis[j].ctr) =>
            event_analysis[i].idx < event_analysis[j].idx

\* C18: once cleaning is complete the table stays what cleaning made of the file: the
\* rows the two filters keep, with their labels, and every date cell as it was read
C18_DatasetFrozenAfterCleaning ==
    Cleaned =>
        LET kept == AnomalyFilter(ThresholdFilter(Labelled(input, RangeIndex(Len(input))),
                                                  min_click_threshold))
        IN  /\ df = Values(kept)
            /\ df_index = Labels(kept)
            /\ \A k \in 1..Len(df_index) :
                    DateCell(date_dtype, df_index[k]) =
                        DateCell(ReadDtype(IF prog = "api" THEN Lower(ext) ELSE ext, columns),
                                 df_index[k])

\* C19: the charts of a run are those a fresh FunnelAnalyzer makes of the same file:
\* the trend chart of the file's own dates when it has a date column and none
\* otherwise, then the chart of this run's ranking, whatever earlier runs on the
\* instance have left
C19_NoLeftoverFromEarlierRun ==
    "visualizations" \in Done =>
        visualizations =
            Charts(IF "date" \in columns
                       THEN Frame(DimensionAnalysis(df, df_index, "date"))
                       ELSE NoFrame,
                   top_modules)

\* the table with the row click = 60, exposure = 50, after its first cleaning pass
InScenarioAnomaly ==
    /\ input \in {in.data : in \in ScenarioAnomaly}
    /\ Cleaned
    /\ original_count = Len(input)

\* C20 as stated: whatever the threshold, the row with click = 60 and exposure = 50 is
\* absent from the cleaned table and is counted among the rows the anomaly rule removed
C20_AnomalyRemovedByRuleTwo ==
    InScenarioAnomaly =>
        /\ \A k \in 1..Len(df) : df[k] # input[1]
        /\ after_click_filter - after_anomaly_filter = 1

\* C20 as amended: a row with click above exposure is absent from the cleaned table
\* whatever the threshold; the anomaly rule counts the rows with click above exposure
\* that passed the threshold rule, so the row with click = 60 and exposure = 50 is
\* counted by the anomaly rule for t <= 60 and by the threshold rule for t > 60
C20_AnomalyRemovedByEitherRule ==
    (Cleaned /\ original_count = Len(input)) =>
        LET t == min_click_threshold
            low == {i \in 1..Len(input) : input[i].click < t}
            anomalous == {i \in 1..Len(input) :
                            input[i].click >= t /\ input[i].click > input[i].exposure}
        IN  /\ \A k \in 1..Len(df) : df[k].click <= df[k].exposure
            /\ original_count - after_click_filter = Cardinality(low)
            /\ after_click_filter - after_anomaly_filter = Cardinality(anomalous)
            /\ InScenarioAnomaly =>
                /\ \A k \in 1..Len(df) : df[k] # input[1]
                /\ t <= 60 => 1 \in anomalous /\ after_click_filter - after_anomaly_filter = 1
                /\ t > 60 => 1 \in low /\ after_click_filter - after_anomaly_filter = 0

C20_Witness ==
    /\ InScenarioAnomaly
    /\ prog = "funnel_analyzer"
    /\ pc = "cleaned"
    /\ min_click_threshold = 70
    /\ original_count - after_click_filter = 2
    /\ after_click_filter - after_anomaly_filter = 0

\* the stage a step belongs to: load, clean, metrics, ranking, visualizations,
\* insights, report
StageOf(step) ==
    CASE step = "load_data" -> 1
      [] step \in {"threshold_filter", "anomaly_filter"} -> 2
      [] step \in {"overall_metrics", "event_analysis", "platform_analysis", "date_analysis"} -> 3
      [] step = "top_list" -> 4
      [] step = "visualizations" -> 5
      [] step = "insights" -> 6
      [] step = "report" -> 7

\* the steps a report rests on in run_analysis and in generate_offline_html_report
StepsBeforeReport ==
    {"load_data", "threshold_filter", "anomaly_filter", "overall_metrics", "event_analysis",
     "top_list", "insights"}
        \cup (IF prog = "funnel_analyzer" THEN {"visualizations"} ELSE {"date_analysis"})

\* a failed run has written no report and its caller has the failure
FailureSurfaced ==
    pc = "failed" =>
        /\ "report" \notin Done
        /\ report = <<>>
        /\ error # NoError
        /\ result \in {"raised", "False"}

\* C21 as stated: in run_analysis and generate_offline_html_report the steps run in the
\* order load, clean, metrics, ranking, visualizations, insights, report; the report is
\* written after all of them; a failed run writes no report and the caller has the failure
C21_StagesInFixedOrder ==
    prog \in {"funnel_analyzer", "offline"} =>
        /\ \A i, j \in 1..Len(steps) : i < j => StageOf(steps[i]) <= StageOf(steps[j])
        /\ "report" \in Done => StepsBeforeReport \subseteq Done
        /\ FailureSurfaced

\* C21 as amended: as stated, except that generate_offline_html_report computes the
\* date trend after the ranking: there the stages 1, 2, 3 (overall and per event), 4
\* are followed by the date trend, then 6 and 7
C21_NoPartialSuccess ==
    prog \in {"funnel_analyzer", "offline"} =>
        /\ \A i, j \in 1..Len(steps) :
            (i < j /\ ~(prog = "offline" /\ "date_analysis" \in {steps[i], steps[j]})) =>
                StageOf(steps[i]) <= StageOf(steps[j])
        /\ \A i, j \in 1..Len(steps) :
            (prog = "offline" /\ steps[i] = "date_analysis") =>
                /\ steps[j] \in {"insights", "report"} => i < j
                /\ steps[j] = "top_list" => j < i
        /\ "report" \in Done => StepsBeforeReport \subseteq Done
        /\ pc = "done" => "report" \in Done /\ result \in {"True", "returned"}
        /\ FailureSurfaced

\* the date column is missing: the ranking is there, the trend raises, no report
C21_Witness ==
    /\ prog = "offline"
    /\ pc = "failed"
    /\ steps = <<"load_data", "threshold_filter", "anomaly_filter", "overall_metrics",
                 "event_analysis", "top_list">>
    /\ top_modules # <<>>
    /\ error = KeyError("date")
    /\ report = <<>>
    /\ result = "raised"

\* the low-efficiency warnings among self.insights
Warnings == SelectSeq(insights, LAMBDA x : x.title = "low_efficiency")

\* an event with a click rate below half the overall one and an exposure above the
\* median of the exposures of all events
IsLowEfficiency(r) ==
    /\ r.ctr.k = "num"
    /\ 2 * r.ctr.v < overall_metrics.ctr.v
    /\ 2 * r.exposure > Median2([i \in 1..Len(event_analysis) |-> event_analysis[i].exposure])

\* C22: the low-efficiency warning of generate_insights lists at most 5 events, each
\* with a click rate below half the overall click rate and an exposure strictly above
\* the median exposure, and it is emitted exactly when some event satisfies both
C22_LowEfficiencyWarning ==
    (prog = "funnel_analyzer" /\ HasInsights) =>
        /\ Len(Warnings) <= 1
        /\ Len(Warnings) = 1 <=> \E i \in 1..Len(event_analysis) : IsLowEfficiency(event_analysis[i])
        /\ \A w \in 1..Len(Warnings) :
            LET modules == Warnings[w].modules
            IN  /\ Len(modules) \in 1..5
                /\ \A m \in 1..Len(modules) :
                    \E i \in 1..Len(event_analysis) :
                        /\ event_analysis[i].name = modules[m]
                        /\ IsLowEfficiency(event_analysis[i])

\* six events qualify and the warning lists five of them
C22_Witness ==
    /\ prog = "funnel_analyzer"
    /\ HasInsights
    /\ Cardinality({i \in 1..Len(event_analysis) : IsLowEfficiency(event_analysis[i])}) = 6
    /\ Len(Warnings) = 1
    /\ Warnings[1].modules = <<"F", "E", "D", "C", "B">>

\* the rows the two rules report as removed, and the rows left
RemovedByRule1 == original_count - after_click_filter
RemovedByRule2 == after_click_filter - after_anomaly_filter
Remaining == Len(df)

\* C23: the cleaning diagnostics are consistent with the data: rule 1 reports the input
\* rows with click < t, rule 2 the rows with click >= t and click > exposure, the
\* three lengths do not grow, and the two reports and the rows left add up to the
\* original count
C23_DiagnosticsConsistent ==
    /\ ("threshold_filter" \in Done /\ original_count = Len(input)) =>
        /\ original_count >= after_click_filter
        /\ RemovedByRule1 =
            Cardinality({i \in 1..Len(input) : input[i].click < min_click_threshold})
    /\ Cleaned =>
        /\ original_count >= after_click_filter
        /\ after_click_filter >= after_anomaly_filter
        /\ after_anomaly_filter >= 0
        /\ RemovedByRule1 + RemovedByRule2 + Remaining = original_count
    /\ (Cleaned /\ original_count = Len(input)) =>
        RemovedByRule2 =
            Cardinality({i \in 1..Len(input) : /\ input[i].click >= min_click_threshold
                                               /\ input[i].click > input[i].exposure})

\* each rule removes a row and a row with as many clicks as exposures stays
C23_Witness ==
    /\ prog = "funnel_analyzer"
    /\ pc = "cleaned"
    /\ original_count = Len(input)
    /\ RemovedByRule1 > 0
    /\ RemovedByRule2 > 0
    /\ Remaining > 0
    /\ \E k \in 1..Len(df) : df[k].click = df[k].exposure

\* the input as a frame, and the two orders of the rules applied to it
InputFrame == Labelled(input, RangeIndex(Len(input)))
ThresholdThenAnomaly == AnomalyFilter(ThresholdFilter(InputFrame, min_click_threshold))
AnomalyThenThreshold == ThresholdFilter(AnomalyFilter(InputFrame), min_click_threshold)

\* the rows each rule removes when the anomaly rule comes first
SwappedRemovedByAnomaly == Len(input) - Len(AnomalyFilter(InputFrame))
SwappedRemovedByThreshold == Len(AnomalyFilter(InputFrame)) - Len(AnomalyThenThreshold)

\* C24: the two cleaning rules commute on the dataset: the threshold rule followed by
\* the anomaly rule leaves the rows, with their labels and in their order, that the
\* anomaly rule followed by the threshold rule leaves; the rows removed in total are
\* as many either way, only their split between the rules can differ
C24_RulesCommute ==
    (Cleaned /\ original_count = Len(input)) =>
        /\ ThresholdThenAnomaly = AnomalyThenThreshold
        /\ df = Values(AnomalyThenThreshold)
        /\ df_index = Labels(AnomalyThenThreshold)
        /\ SwappedRemovedByAnomaly + SwappedRemovedByThreshold = RemovedByRule1 + RemovedByRule2

\* a row that both rules reject is counted by whichever rule comes first
C24_Witness ==
    /\ Cleaned
    /\ original_count = Len(input)
    /\ Len(input) > 1
    /\ \E i \in 1..Len(input) : /\ input[i].click < min_click_threshold
                                 /\ input[i].click > input[i].exposure
    /\ SwappedRemovedByAnomaly > RemovedByRule2
    /\ SwappedRemovedByThreshold < RemovedByRule1

\* the three ratios of a block of metrics
RatiosOf(m) == <<m.ctr, m.click_cvr, m.order_cvr>>

\* the click rates of a table, in its order
CtrColumn(events) == [i \in 1..Len(events) |-> events[i].ctr]

\* the entries of a table, whatever their order
EntriesOf(events) == {events[i] : i \in 1..Len(events)}

\* C25: for one input table and threshold the four implementations agree: the cleaned
\* rows, the three overall ratios, the per-event metrics and the descending order of
\* the click rates that a finished run of any of them has are those that
\* analyze_data_from_bytes computes from the table (it computes them for every file
\* with the five pipeline columns)
C25_ImplementationsAgree ==
    (pc \in {"done", "failed"} /\ RequiredColumns \subseteq columns /\ Supported(ext)) =>
        LET cleaned == Values(ThresholdThenAnomaly)
            events == GroupedEvents(cleaned)
        IN  /\ Analysed
            /\ df = cleaned
            /\ RatiosOf(overall_metrics) = RatiosOf(overall_block(cleaned))
            /\ EntriesOf(event_analysis) = EntriesOf(events)
            /\ \A sorted \in SortValues(events) : CtrColumn(event_analysis) = CtrColumn(sorted)

\* the threads that have read the clock and not returned
Running == {t \in Threads : gui.threads[t].pc \notin {"none", "started", "finished"}}

\* C26: the threshold of the spinbox, read at the start of the worker thread, is the
\* one every report of that click is computed with, the HTML one and the Markdown one
C26_ReportsUseSpinboxValue ==
    prog = "gui" =>
        \A t \in Running :
            LET th == gui.threads[t]
            IN  /\ (\E i \in 1..Len(th.generated_files) : th.generated_files[i][3] = "html") =>
                    th.html_min_click = th.threshold
                /\ (\E i \in 1..Len(th.generated_files) : th.generated_files[i][3] = "md") =>
                    th.md_min_click = th.threshold

\* the requests that have stored their upload and have not answered yet
InFlight == {r \in Requests : web.requests[r].pc = "saved"}

\* C27: overlapping invocations do not interfere: two worker threads of the window
\* never write to the same report path, two upload requests never use the same saved
\* upload or the same report, and the report a caller gets is computed from its own input
C27_InvocationsDoNotInterfere ==
    /\ prog = "gui" =>
        /\ \A t, u \in Running : t # u => gui.threads[t].timestamp # gui.threads[u].timestamp
        /\ \A t \in Running :
            \A i \in 1..Len(gui.threads[t].generated_files) :
                gui.folder[gui.threads[t].generated_files[i]] = t
    /\ prog = "app_upload" =>
        /\ \A r, q \in InFlight : r # q => web.requests[r].timestamp # web.requests[q].timestamp
        /\ \A r \in Requests : web.requests[r].status = 200 => web.requests[r].report = r
    /\ prog = "api_upload" =>
        /\ \A r, q \in InFlight : r # q => web.requests[r].upload # web.requests[q].upload
        /\ \A r \in Requests :
            web.requests[r].status = 200 =>
                \E row \in web.report_rows : row.id = web.requests[r].report /\ row.data = r

\* C28: an upload request answered with 400 or 500 leaves nothing stored: no uploaded
\* file or upload row with its data, no report file or report row computed from it
C28_ErrorLeavesNothing ==
    prog \in {"app_upload", "api_upload"} =>
        \A r \in Requests :
            (web.requests[r].pc = "responded" /\ web.requests[r].status \in {400, 500}) =>
                /\ \A ts \in 0..MaxTime : web.upload_files[ts] # r /\ web.report_files[ts] # r
                /\ \A row \in web.upload_rows \cup web.report_rows : row.data # r

\* how often a call of the driver was made
Called(name) == Len(SelectSeq(db.calls, LAMBDA c : c = name))

\* what holds of a finished use whichever call raised
ConnectionDiscipline ==
    /\ Called("commit") = (IF db.body = "completed" THEN 1 ELSE 0)
    /\ db.committed => db.body = "completed" /\ db.raising \in {"none", "close_error"}
    /\ db.raising \in {"body_error", "commit_error", "rollback_error"} =>
        Called("rollback") = 1 /\ ~db.committed
    /\ db.conn # "None" => Called("close") = 1
    /\ db.raising = "connect_error" =>
        db.conn = "None" /\ Called("rollback") = 0 /\ Called("close") = 0

\* C29 as stated: get_db_connection commits exactly when the body completes; when the
\* body or the commit raises, the transaction is rolled back, that same exception
\* reaches the caller and nothing is committed; an opened connection is closed exactly
\* once; after a failed connect nothing is rolled back or closed
C29_SameExceptionReraised ==
    (prog = "db" /\ db.pc = "end") =>
        /\ ConnectionDiscipline
        /\ db.body = "raised" => db.raised = "body_error"
        /\ (db.body = "completed" /\ ~db.committed) => db.raised = "commit_error"
        /\ db.committed => db.raised = "none"

\* C29 as amended: as stated, except that an exception of rollback() or close()
\* replaces the one on its way, and that close() raising after the commit makes the
\* with statement raise although the commit has taken effect
C29_CommitOrRollback ==
    (prog = "db" /\ db.pc = "end") =>
        /\ ConnectionDiscipline
        /\ db.raised = db.raising
        /\ db.body = "raised" => db.raised \in {"body_error", "rollback_error", "close_error"}
        /\ (db.body = "completed" /\ ~db.committed) =>
            db.raised \in {"commit_error", "rollback_error", "close_error"}
        /\ db.committed => db.raised \in {"none", "close_error"}
        /\ (db.raised = "rollback_error" \/ db.raised = "close_error") =>
            db.calls[Len(db.calls)] = "close"
        /\ db.raised \in {"body_error", "commit_error"} =>
            db.calls[Len(db.calls) - 1] = "rollback" /\ db.calls[Len(db.calls)] = "close"

\* the body raised, the rollback and the close returned, the exception of the body
\* reached the caller
C29_Witness ==
    /\ prog = "db"
    /\ db.pc = "end"
    /\ db.calls = <<"connect", "rollback", "close">>
    /\ db.raised = "body_error"
    /\ ~db.committed

\* a thread that has stopped the bar and set its last status line; what is left of it is
\* the dialog it shows
AtFinalStatus(t) == gui.threads[t].pc \in {"askyesno", "showerror", "finished"}

\* what the status line of a thread at its dialog says about its children
StatusMatchesChildren ==
    \A t \in Threads :
        LET th == gui.threads[t]
            exited0 == \E i \in 1..Len(th.returncodes) : th.returncodes[i] = 0
        IN  /\ AtFinalStatus(t) => th.final \in FinalStatuses
            /\ th.pc = "askyesno" => th.final = "done" /\ exited0
            /\ (th.pc = "showerror" /\ th.final = "failed") => ~exited0
            /\ th.final = "done" => th.pc \in {"askyesno", "except", "finished"}

\* with no thread at work after one has run, the bar stands still and the status line
\* is one of the three last ones
QuietWindow ==
    (Running \subseteq {t \in Threads : AtFinalStatus(t)} /\ ThreadPcs \cap {"started"} = {}
        /\ ThreadPcs # {"none"}) =>
        /\ ~gui.progress
        /\ gui.status_var \in FinalStatuses

====
